---- MODULE Spec2Model ----
(***************************************************************************)
(* Model of the spreadsheet import pipeline of the SOUL registration       *)
(* backend: ExcelHandler._process_sheet (app/utils/excel_handler.py), the  *)
(* import request handler importar_registros (app/api/routes/excel.py)     *)
(* and the CRUD handlers (app/api/routes/registros.py) over the registros  *)
(* table (app/models/registro.py).                                         *)
(*                                                                         *)
(* Text is a sequence of one-character strings, so that strip(), lower()   *)
(* and the "in" tests of the code are computed, not assumed.               *)
(***************************************************************************)
EXTENDS Integers, Sequences, FiniteSets, TLC

(* ------------------------------------------------------------------ *)
(* Text: str.strip(), str.lower(), "c in s"                            *)
(* ------------------------------------------------------------------ *)

UpperToLower ==
    [c \in {"A","B","C","D","E","F","G","H","I","J","K","L","M",
            "N","O","P","Q","R","S","T","U","V","W","X","Y","Z"} |->
        CASE c = "A" -> "a" [] c = "B" -> "b" [] c = "C" -> "c" [] c = "D" -> "d"
          [] c = "E" -> "e" [] c = "F" -> "f" [] c = "G" -> "g" [] c = "H" -> "h"
          [] c = "I" -> "i" [] c = "J" -> "j" [] c = "K" -> "k" [] c = "L" -> "l"
          [] c = "M" -> "m" [] c = "N" -> "n" [] c = "O" -> "o" [] c = "P" -> "p"
          [] c = "Q" -> "q" [] c = "R" -> "r" [] c = "S" -> "s" [] c = "T" -> "t"
          [] c = "U" -> "u" [] c = "V" -> "v" [] c = "W" -> "w" [] c = "X" -> "x"
          [] c = "Y" -> "y" [] c = "Z" -> "z"]

LowerChar(c) == IF c \in DOMAIN UpperToLower THEN UpperToLower[c] ELSE c

\* str.lower()
Lower(s) == [i \in 1..Len(s) |-> LowerChar(s[i])]

IsSpace(c) == c \in {" ", "\t", "\n"}

\* str.strip(): the text between the first and the last non-blank character
Strip(s) ==
    LET keep == {i \in 1..Len(s) : ~IsSpace(s[i])}
    IN  IF keep = {} THEN <<>>
        ELSE LET lo == CHOOSE i \in keep : \A j \in keep : i <= j
                 hi == CHOOSE i \in keep : \A j \in keep : j <= i
             IN  SubSeq(s, lo, hi)

\* c in s
Contains(s, c) == \E i \in 1..Len(s) : s[i] = c

(* ------------------------------------------------------------------ *)
(* app/config.py                                                       *)
(* ------------------------------------------------------------------ *)

ESTUDIOS_DISPONIBLES ==
    { <<"D","e","s","a","r","r","o","l","l","o"," ","W","e","b">>,
      <<"D","e","s","a","r","r","o","l","l","o"," ","M","ó","v","i","l">>,
      <<"B","a","s","e","s"," ","d","e"," ","D","a","t","o","s">>,
      <<"R","e","d","e","s"," ","y"," ","S","e","g","u","r","i","d","a","d">>,
      <<"D","i","s","e","ñ","o"," ","G","r","á","f","i","c","o">>,
      <<"M","a","r","k","e","t","i","n","g"," ","D","i","g","i","t","a","l">>,
      <<"A","d","m","i","n","i","s","t","r","a","c","i","ó","n"," ","d","e"," ","E","m","p","r","e","s","a","s">>,
      <<"C","o","n","t","a","b","i","l","i","d","a","d">>,
      <<"E","l","e","c","t","r","i","c","i","d","a","d">>,
      <<"S","i","s","t","e","m","a","s">> }

(* ------------------------------------------------------------------ *)
(* Spreadsheet cells as pandas reads them                              *)
(* ------------------------------------------------------------------ *)

\* An empty cell (NaN), a text cell, an integer cell (v: its digits).
\* Boolean and date cells are outside the model.
NaN == [kind |-> "null", v |-> <<>>]
Text(s) == [kind |-> "text", v |-> s]
Num(s) == [kind |-> "num", v |-> s]

\* A row of text cells
TextRow(texts) == [j \in 1..Len(texts) |-> Text(texts[j])]

\* Texts pd.read_excel turns into NaN (its default na_values), as far as
\* the inputs of the model use them.
NA_VALUES == { <<>>, <<"N","A">>, <<"n","a","n">>, <<"n","u","l","l">> }

ReadCell(c) == IF c.kind = "text" /\ c.v \in NA_VALUES THEN NaN ELSE c

\* df = pd.read_excel(filepath, sheet_name=sheet_name)
ReadExcel(sheet) ==
    [columns |-> sheet.headers,
     data    |-> [i \in 1..Len(sheet.rows) |->
                    [j \in 1..Len(sheet.headers) |-> ReadCell(sheet.rows[i][j])]]]

\* The dtype pandas infers for column j: object when it holds a text,
\* float64 when it holds numbers and blanks, int64 when only integers.
Dtype(df, j) ==
    LET cells == {df.data[i][j] : i \in 1..Len(df.data)}
    IN  IF cells = {} \/ \E c \in cells : c.kind = "text" THEN "object"
        ELSE IF \E c \in cells : c.kind = "null" THEN "float64"
        ELSE "int64"

(* ------------------------------------------------------------------ *)
(* ExcelHandler._process_sheet: column mapping                         *)
(* ------------------------------------------------------------------ *)

column_mapping ==
    [nombres   |-> { <<"n","o","m","b","r","e","s">>, <<"n","o","m","b","r","e">>,
                     <<"f","i","r","s","t","_","n","a","m","e">>,
                     <<"f","i","r","s","t","n","a","m","e">> },
     apellidos |-> { <<"a","p","e","l","l","i","d","o","s">>,
                     <<"a","p","e","l","l","i","d","o">>,
                     <<"l","a","s","t","_","n","a","m","e">>,
                     <<"l","a","s","t","n","a","m","e">> },
     email     |-> { <<"e","m","a","i","l">>, <<"c","o","r","r","e","o">>,
                     <<"e","-","m","a","i","l">>, <<"m","a","i","l">> },
     estudio   |-> { <<"e","s","t","u","d","i","o">>, <<"e","s","t","u","d","i","o","s">>,
                     <<"c","a","r","r","e","r","a">>, <<"p","r","o","g","r","a","m","a">>,
                     <<"c","o","u","r","s","e">> }]

required_fields == <<"nombres", "apellidos", "email", "estudio">>

\* As NormalizeColumns, without .str.lower()
NormalizeStripOnly(columns) ==
    [j \in 1..Len(columns) |->
        IF columns[j].kind = "text" THEN Text(Strip(columns[j].v)) ELSE NaN]

\* df.columns.str raises AttributeError when the header row holds cells and
\* none of them is a text (the index is numeric); an index with some text
\* is accepted
StrAccessorRaises(columns) ==
    /\ columns # <<>>
    /\ \A j \in 1..Len(columns) : columns[j].kind # "text"

\* df.columns = df.columns.str.strip().str.lower(): a text is normalised,
\* any other label of an accepted index becomes NaN
NormalizeColumns(columns) ==
    [j \in 1..Len(columns) |->
        IF columns[j].kind = "text" THEN Text(Lower(Strip(columns[j].v))) ELSE NaN]

\* The inner loop with its break: the first column, in column order, whose
\* name is one of possible_names; 0 when there is none.
FirstMatch(columns, possible_names) ==
    LET hits == {j \in 1..Len(columns) :
                    columns[j].kind = "text" /\ columns[j].v \in possible_names}
    IN  IF hits = {} THEN 0 ELSE CHOOSE j \in hits : \A k \in hits : j <= k

\* mapped_columns, as field -> column position (0: the key is absent)
MappedColumns(columns) ==
    [key \in DOMAIN column_mapping |-> FirstMatch(columns, column_mapping[key])]

\* missing_fields, in the order of required_fields
MissingFields(mapped) ==
    SelectSeq(required_fields, LAMBDA field : mapped[field] = 0)

(* ------------------------------------------------------------------ *)
(* ExcelHandler._process_sheet: rows                                   *)
(* ------------------------------------------------------------------ *)

\* df.rename(...) ; df = df[required_fields]: each row as field -> cell
SelectRequired(df, mapped) ==
    [i \in 1..Len(df.data) |->
        [field \in DOMAIN column_mapping |-> df.data[i][mapped[field]]]]

\* The dtype of each selected column
FieldDtypes(df, mapped) ==
    [field \in DOMAIN column_mapping |-> Dtype(df, mapped[field])]

\* As KeptByDropna, with subset=['email'] only
KeptByDropnaEmailOnly(row) == row.email.kind # "null"

\* df.dropna(subset=required_fields) keeps row i
KeptByDropna(row) == \A field \in DOMAIN row : row[field].kind # "null"

\* x.str.strip() if x.dtype == "object" else x: in an object column a text
\* is stripped and any other value becomes NaN; other columns are untouched
StripCell(cell, dtype) ==
    IF dtype # "object" THEN cell
    ELSE IF cell.kind = "text" THEN Text(Strip(cell.v))
    ELSE NaN

\* iterrows() yields float rows when every column is numeric and one is float
RowUpcast(dtypes) ==
    /\ \A field \in DOMAIN dtypes : dtypes[field] # "object"
    /\ \E field \in DOMAIN dtypes : dtypes[field] = "float64"

\* str(row[field])
PyStr(cell, dtype, upcast) ==
    CASE cell.kind = "text" -> cell.v
      [] cell.kind = "null" -> <<"n","a","n">>
      [] cell.kind = "num"  -> IF dtype = "float64" \/ upcast
                               THEN cell.v \o <<".","0">>
                               ELSE cell.v

\* As EstudioValido, testing only that the value is not empty
EstudioNoVacio(estudio) == estudio # <<>>

\* estudio not in ESTUDIOS_DISPONIBLES is false
EstudioValido(estudio) == estudio \in ESTUDIOS_DISPONIBLES

\* As EmailValido, with "and" for "or" in the rejecting test
EmailValidoAlguno(email) == Contains(email, "@") \/ Contains(email, ".")

\* '@' not in email or '.' not in email is false
EmailValido(email) == Contains(email, "@") /\ Contains(email, ".")

\* The registro dict
RegistroDict(row, dtypes, upcast, email, estudio) ==
    [nombres   |-> Strip(PyStr(row.nombres, dtypes.nombres, upcast)),
     apellidos |-> Strip(PyStr(row.apellidos, dtypes.apellidos, upcast)),
     email     |-> email,
     estudio   |-> estudio]

\* One pass of the for loop over row idx (0-based index label) of the frame
\* that dropna and strip left: a registro, or an error string (its parts)
RowOutcome(sheet_name, idx, row, dtypes) ==
    LET upcast  == RowUpcast(dtypes)
        estudio == Strip(PyStr(row.estudio, dtypes.estudio, upcast))
        email   == Lower(Strip(PyStr(row.email, dtypes.email, upcast)))
    IN  IF ~EstudioValido(estudio)
        THEN [ok |-> FALSE,
              error |-> [tipo |-> "estudio", hoja |-> sheet_name,
                         fila |-> idx + 2, valor |-> estudio]]
        ELSE IF ~EmailValido(email)
        THEN [ok |-> FALSE,
              error |-> [tipo |-> "email", hoja |-> sheet_name,
                         fila |-> idx + 2, valor |-> email]]
        ELSE [ok |-> TRUE,
              registro |-> RegistroDict(row, dtypes, upcast, email, estudio)]

\* The rows of the frame after dropna, by 1-based position in the sheet
KeptRows(rows) == {i \in 1..Len(rows) : KeptByDropna(rows[i])}

RECURSIVE LoopRows(_, _, _, _, _)
\* for idx, row in df.iterrows(): from position i on, with the lists so far
LoopRows(sheet_name, rows, dtypes, i, acc) ==
    IF i > Len(rows) THEN acc
    ELSE IF i \notin KeptRows(rows)
    THEN LoopRows(sheet_name, rows, dtypes, i + 1, acc)
    ELSE LET stripped == [field \in DOMAIN rows[i] |->
                             StripCell(rows[i][field], dtypes[field])]
             out == RowOutcome(sheet_name, i - 1, stripped, dtypes)
         IN  LoopRows(sheet_name, rows, dtypes, i + 1,
                 IF out.ok
                 THEN [acc EXCEPT !.registros = Append(@, out.registro)]
                 ELSE [acc EXCEPT !.errores = Append(@, out.error)])

\* _process_sheet(filepath, sheet_name) on the sheet's content:
\* (registros_validos, errores)
ProcessSheet(sheet, sheet_name) ==
    LET df      == ReadExcel(sheet)
        columns == NormalizeColumns(df.columns)
        mapped  == MappedColumns(columns)
        missing == MissingFields(mapped)
    IN  IF StrAccessorRaises(df.columns)
        THEN \* the outer except: "Error al procesar hoja ..."
             [registros |-> <<>>,
              errores   |-> << [tipo |-> "hoja", hoja |-> sheet_name] >>]
        ELSE IF missing # <<>>
        THEN [registros |-> <<>>,
              errores   |-> << [tipo |-> "columnas", hoja |-> sheet_name,
                                faltan |-> missing] >>]
        ELSE LoopRows(sheet_name, SelectRequired(df, mapped),
                      FieldDtypes(df, mapped), 1,
                      [registros |-> <<>>, errores |-> <<>>])

(* ------------------------------------------------------------------ *)
(* Upload validation (importar_registros) and app/config.py            *)
(* ------------------------------------------------------------------ *)

ALLOWED_EXTENSIONS == { <<".","x","l","s","x">>, <<".","x","l","s">> }

MAX_FILE_SIZE == 10 * 1024 * 1024

\* Path(filename).suffix: from the last dot on, when the name has one that
\* is not its first character
Suffix(filename) ==
    LET dots == {i \in 2..Len(filename) : filename[i] = "."}
    IN  IF dots = {} \/ filename[Len(filename)] = "." THEN <<>>
        ELSE SubSeq(filename, CHOOSE i \in dots : \A j \in dots : j <= i,
                    Len(filename))

\* file_extension not in ALLOWED_EXTENSIONS is false
ExtensionAllowed(filename) == Lower(Suffix(filename)) \in ALLOWED_EXTENSIONS

\* file_size > MAX_FILE_SIZE is false
SizeAllowed(size) == ~(size > MAX_FILE_SIZE)

\* temp_filepath = UPLOADS_DIR / f"upload_{timestamp}_{file.filename}",
\* timestamp being the current time to the second
TempFilepath(now, filename) == [timestamp |-> now, filename |-> filename]

(* ------------------------------------------------------------------ *)
(* ExcelHandler.import_from_excel_multiple_sheets                      *)
(* ------------------------------------------------------------------ *)

\* A workbook is a sequence of [name, sheet]; available_sheets are its names
AvailableSheets(workbook) == [j \in 1..Len(workbook) |-> workbook[j].name]

SheetNamed(workbook, sheet_name) ==
    LET j == CHOOSE j \in 1..Len(workbook) : workbook[j].name = sheet_name
    IN  workbook[j].sheet

\* The entry results[sheet_name]
SheetResult(workbook, sheet_name) ==
    IF \A j \in 1..Len(workbook) : workbook[j].name # sheet_name
    THEN [nombre |-> sheet_name, registros |-> <<>>,
          errores |-> << [tipo |-> "no_existe", hoja |-> sheet_name] >>]
    ELSE LET out == ProcessSheet(SheetNamed(workbook, sheet_name), sheet_name)
         IN  [nombre |-> sheet_name, registros |-> out.registros,
              errores |-> out.errores]

\* The requested names, each once, in the order of their first request (the
\* results are a dict)
RECURSIVE DictKeys(_, _)
DictKeys(names, seen) ==
    IF names = <<>> THEN <<>>
    ELSE IF Head(names) \in seen THEN DictKeys(Tail(names), seen)
    ELSE <<Head(names)>> \o DictKeys(Tail(names), seen \cup {Head(names)})

\* As ImportFromExcelMultipleSheets, for a loop that lets the lookup of an
\* absent sheet raise: the except clause then returns the "error" entry alone
ImportAbortsOnAbsentSheet(readable, workbook, sheet_names) ==
    IF ~readable \/ \E i \in 1..Len(sheet_names) :
                        \A j \in 1..Len(workbook) : workbook[j].name # sheet_names[i]
    THEN << [nombre |-> "error", registros |-> <<>>,
             errores |-> << [tipo |-> "archivo", hoja |-> "error"] >>] >>
    ELSE LET names == IF sheet_names = <<>> THEN AvailableSheets(workbook)
                      ELSE sheet_names
             keys  == DictKeys(names, {})
         IN  [j \in 1..Len(keys) |-> SheetResult(workbook, keys[j])]

\* results_by_sheet as the sequence of its items; sheet_names = <<>> is None.
\* readable: the file at filepath exists and pandas can open it
ImportFromExcelMultipleSheets(readable, workbook, sheet_names) ==
    IF ~readable
    THEN << [nombre |-> "error", registros |-> <<>>,
             errores |-> << [tipo |-> "archivo", hoja |-> "error"] >>] >>
    ELSE LET names == IF sheet_names = <<>> THEN AvailableSheets(workbook)
                      ELSE sheet_names
             keys  == DictKeys(names, {})
         IN  [j \in 1..Len(keys) |-> SheetResult(workbook, keys[j])]

(* ------------------------------------------------------------------ *)
(* The registros table and the response schema                         *)
(* ------------------------------------------------------------------ *)

\* db.query(Registro).filter(Registro.email == email).first() is not None,
\* over the rows the session sees
ExistsEmail(rows, email) == \E row \in rows : row.email = email

\* As UniqueViolation, for a column declared without unique=True
NoUniqueConstraint(rows, email) == FALSE

\* email = Column(String, unique=True, ...): inserting email among rows
\* violates the constraint
UniqueViolation(rows, email) == \E row \in rows : row.email = email

\* EmailStr, as far as its shape goes: one '@', something before it, and
\* after it a domain of non-empty labels separated by dots
EmailStrValid(email) ==
    LET ats == {i \in 1..Len(email) : email[i] = "@"}
    IN  /\ Cardinality(ats) = 1
        /\ LET at == CHOOSE i \in ats : TRUE
           IN  /\ at > 1
               /\ \E i \in (at + 2)..(Len(email) - 1) : email[i] = "."
               /\ \A i \in (at + 1)..Len(email) :
                     email[i] = "." =>
                        /\ i > at + 1 /\ i < Len(email)
                        /\ email[i + 1] # "."

\* RegistroResponse.from_orm(nuevo_registro) validates: RegistroBase's
\* min_length=1, max_length=100 and EmailStr
ResponseValid(row) ==
    /\ Len(row.nombres) >= 1 /\ Len(row.nombres) <= 100
    /\ Len(row.apellidos) >= 1 /\ Len(row.apellidos) <= 100
    /\ EmailStrValid(row.email)

\* Registro(**registro_data) with the id the sequence gives it
NewRow(id, data) ==
    [id |-> id, nombres |-> data.nombres, apellidos |-> data.apellidos,
     email |-> data.email, estudio |-> data.estudio]


(* ------------------------------------------------------------------ *)
(* Inputs of the model                                                 *)
(* ------------------------------------------------------------------ *)

\* Longest sheet, in data rows
MaxRows == 2

Ana == <<"A","n","a">>
Paz == <<"P","a","z">>
Sistemas == <<"S","i","s","t","e","m","a","s">>

\* Header rows: the template's, synonyms with stray case and blanks, one
\* with no column for email, one with two fields missing, one whose last
\* header is a number and one of numbers only
HeaderSamples ==
    { TextRow(<< <<"N","o","m","b","r","e","s">>, <<"A","p","e","l","l","i","d","o","s">>,
         <<"E","m","a","i","l">>, <<"E","s","t","u","d","i","o">> >>),
      TextRow(<< <<" ","N","o","m","b","r","e">>, <<"A","p","e","l","l","i","d","o">>,
         <<"C","O","R","R","E","O"," ">>, <<"P","r","o","g","r","a","m","a">> >>),
      TextRow(<< <<"N","o","m","b","r","e","s">>, <<"A","p","e","l","l","i","d","o","s">>,
         <<"T","e","l","e","f","o","n","o">>, <<"E","s","t","u","d","i","o">> >>),
      \* no column for apellidos nor for estudio ("curso" is no synonym)
      TextRow(<< <<"F","i","r","s","t","_","N","a","m","e">>, <<"T","e","l","e","f","o","n","o">>,
         <<" ","M","a","i","l">>, <<"C","u","r","s","o">> >>),
      << Text(<<"N","o","m","b","r","e","s">>), Text(<<"A","p","e","l","l","i","d","o","s">>),
         Text(<<"E","m","a","i","l">>), Num(<<"7">>) >>,
      << Num(<<"1">>), Num(<<"2">>), Num(<<"3">>), Num(<<"4">>) >> }

\* Data rows (cells under the four headers, in header order)
RowSamples ==
    { \* valid, with blanks and capitals to normalise
      << Text(Ana), Text(Paz), Text(<<" ","A","@","b",".","c","o"," ">>),
         Text(<<" ","S","i","s","t","e","m","a","s"," ">>) >>,
      \* a name of blanks only, same email as the row above
      << Text(<<" "," ">>), Text(Paz), Text(<<"a","@","b",".","c","o">>),
         Text(Sistemas) >>,
      \* valid, another email
      << Text(Ana), Text(Paz), Text(<<"L","@","B",".","C","O">>),
         Text(<<"C","o","n","t","a","b","i","l","i","d","a","d">>) >>,
      \* unknown estudio
      << Text(Ana), Text(Paz), Text(<<"l","@","b",".","c","o">>),
         Text(<<"F","o","o"," ">>) >>,
      \* email without @
      << Text(Ana), Text(Paz), Text(<<"a","b",".","c","o">>), Text(Sistemas) >>,
      \* email without .
      << Text(Ana), Text(Paz), Text(<<"a","@","b","c","o">>), Text(Sistemas) >>,
      \* no email, unknown estudio
      << Text(Ana), Text(Paz), NaN, Text(<<"F","o","o">>) >>,
      \* a number as estudio
      << Text(Ana), Text(Paz), Text(<<"l","@","b",".","c","o">>), Num(<<"7">>) >>,
      \* a name pandas reads as missing
      << Text(<<"N","A">>), Text(Paz), Text(<<"l","@","b",".","c","o">>),
         Text(Sistemas) >> }

\* Sequences over S of length at most n
SeqsUpTo(S, n) == UNION {[1..k -> S] : k \in 0..n}

SheetInputs ==
    {[headers |-> h, rows |-> r] : h \in HeaderSamples, r \in SeqsUpTo(RowSamples, MaxRows)}

SheetName == "Hoja1"

(* ------------------------------------------------------------------ *)
(* State                                                               *)
(* ------------------------------------------------------------------ *)

VARIABLES
    sheet_in,     \* the sheet handed to _process_sheet (SpecBook: the file
                  \* and sheet_names handed to import_from_excel_multiple_sheets)
    sheet_pc,     \* "call" before the importer runs, "returned" after
    sheet_out,    \* what the importer returned
    store,        \* the committed rows of the registros table
    next_id,      \* the next value of the id sequence
    clock,        \* the wall clock, in seconds
    uploads_dir,  \* the files of UPLOADS_DIR: [path, owner, workbook]
    req,          \* per import request: where it is and its locals
    crud,         \* the CRUD client: the request in progress
    crud_ops      \* CRUD requests made so far

sheetVars == <<sheet_in, sheet_pc, sheet_out>>
reqVars == <<store, next_id, clock, uploads_dir, req, crud, crud_ops>>
vars == <<sheet_in, sheet_pc, sheet_out, store, next_id, clock, uploads_dir,
          req, crud, crud_ops>>

\* The import requests that may be in flight together
Imports == {"r1", "r2"}

NoUpload == [filename |-> <<>>, size |-> 0, workbook |-> <<>>, sheet_names |-> <<>>]
NoPath == [timestamp |-> 0, filename |-> <<>>]
NoResponse == [status |-> "none"]

\* The locals of importar_registros before the request arrives
IdleRequest ==
    [pc        |-> "idle",
     upload    |-> NoUpload,     \* file, its size, sheet_names
     path      |-> NoPath,       \* temp_filepath
     hojas     |-> <<>>,         \* per sheet: its outcome and its three lists
     cands     |-> <<>>,         \* registros_validos of every sheet, in loop order
     k         |-> 1,            \* the candidate the loops are at
     pending   |-> {},           \* rows flushed in the session's open transaction
     tx        |-> "active",     \* "inactive" once a flush has failed
     flush_failed |-> FALSE,     \* a flush of this request was rejected
     committed |-> {},           \* the rows db.commit() of this request persisted
     emails_before |-> {},       \* history: the emails in the table on arrival
     order     |-> 0,            \* history: requests that arrived before this one
     response  |-> NoResponse]

NoData == [nombres |-> <<>>, apellidos |-> <<>>, email |-> <<>>, estudio |-> <<>>]
NoCrud == [pc |-> "idle", id |-> 0, data |-> NoData]

RequestsIdle ==
    /\ store = {}
    /\ next_id = 1
    /\ clock = 0
    /\ uploads_dir = {}
    /\ req = [r \in Imports |-> IdleRequest]
    /\ crud = NoCrud
    /\ crud_ops = 0

NoOutcome == [registros |-> <<>>, errores |-> <<>>]

(* ------------------------------------------------------------------ *)
(* The sheet importer alone                                            *)
(* ------------------------------------------------------------------ *)

SheetInit ==
    /\ sheet_in \in SheetInputs
    /\ sheet_pc = "call"
    /\ sheet_out = NoOutcome
    /\ RequestsIdle

\* One call of ExcelHandler._process_sheet
CallProcessSheet ==
    /\ sheet_pc = "call"
    /\ sheet_out' = ProcessSheet(sheet_in, SheetName)
    /\ sheet_pc' = "returned"
    /\ UNCHANGED <<sheet_in, reqVars>>

SheetNext == CallProcessSheet

SpecSheet == SheetInit /\ [][SheetNext]_vars

(* ------------------------------------------------------------------ *)
(* importar_registros: one import request, step by step                *)
(* ------------------------------------------------------------------ *)

\* Longest batch of an uploaded sheet, in data rows
MaxBatch == 2

\* Last second of the clock
MaxClock == 1

\* CRUD requests the client makes
MaxCrudOps == 2

\* Last id the sequence gives out: an id for every insert the requests of
\* the model can attempt, after those of the initial table
MaxId == 1 + Cardinality(Imports) * MaxBatch + MaxCrudOps

TemplateHeaders ==
    TextRow(<< <<"N","o","m","b","r","e","s">>, <<"A","p","e","l","l","i","d","o","s">>,
       <<"E","m","a","i","l">>, <<"E","s","t","u","d","i","o">> >>)

\* A header row with no column for email
NoEmailHeaders ==
    TextRow(<< <<"N","o","m","b","r","e","s">>, <<"A","p","e","l","l","i","d","o","s">>,
       <<"T","e","l","e","f","o","n","o">>, <<"E","s","t","u","d","i","o">> >>)

EmailA == <<"a","@","b",".","c","o">>
EmailL == <<"l","@","b",".","c","o">>

\* Rows of the uploaded sheets: two rows with the same email (one of them
\* with a name of blanks only) and a row with another email
RequestRows ==
    { << Text(Ana), Text(Paz), Text(<<" ","A","@","b",".","c","o"," ">>),
         Text(Sistemas) >>,
      << Text(<<" "," ">>), Text(Paz), Text(EmailA), Text(Sistemas) >>,
      << Text(Ana), Text(Paz), Text(<<"L","@","B",".","C","O">>),
         Text(Sistemas) >> }

XlsxName == <<"d",".","X","L","S","X">>
CsvName == <<"d",".","c","s","v">>

\* Files of two sheets: one whose first sheet repeats an email (the second
\* time under a name of blanks only), sent with no sheet_names; and one whose
\* second sheet has no email column, sent with sheet_names that also ask for
\* an absent sheet
TwoSheetUploads ==
    {[filename |-> XlsxName, size |-> 2048,
      workbook |-> << [name |-> "Hoja1",
                       sheet |-> [headers |-> TemplateHeaders,
                                  rows |-> << << Text(Ana), Text(Paz), Text(EmailA),
                                                 Text(Sistemas) >>,
                                              << Text(<<" "," ">>), Text(Paz),
                                                 Text(EmailA), Text(Sistemas) >> >>]],
                      [name |-> "Hoja2",
                       sheet |-> [headers |-> TemplateHeaders,
                                  rows |-> << << Text(Ana), Text(Paz), Text(EmailL),
                                                 Text(Sistemas) >> >>]] >>,
      sheet_names |-> <<>>],
     [filename |-> XlsxName, size |-> 2048,
      workbook |-> << [name |-> "Hoja1",
                       sheet |-> [headers |-> TemplateHeaders,
                                  rows |-> << << Text(Ana), Text(Paz), Text(EmailL),
                                                 Text(Sistemas) >> >>]],
                      [name |-> "Hoja2",
                       sheet |-> [headers |-> NoEmailHeaders,
                                  rows |-> << << Text(Ana), Text(Paz), Text(EmailA),
                                                 Text(Sistemas) >> >>]] >>,
      sheet_names |-> <<"Hoja2", "Cohort2", "Hoja1">>]}

\* The uploads a client may send: file name, size, content, sheet_names
UploadSamples ==
    {[filename |-> XlsxName, size |-> 1024,
      workbook |-> << [name |-> SheetName,
                       sheet |-> [headers |-> TemplateHeaders, rows |-> rows]] >>,
      sheet_names |-> <<>>] : rows \in SeqsUpTo(RequestRows, MaxBatch)}
    \cup TwoSheetUploads
    \cup
    {[filename |-> CsvName, size |-> 1024, workbook |-> <<>>, sheet_names |-> <<>>],
     [filename |-> XlsxName, size |-> MAX_FILE_SIZE + 1, workbook |-> <<>>,
      sheet_names |-> <<>>]}

Set(r, rq) == req' = [req EXCEPT ![r] = rq]

FileAt(path) == {f \in uploads_dir : f.path = path}

\* Concatenation of a sequence of sequences
RECURSIVE Flatten(_)
Flatten(ss) == IF ss = <<>> THEN <<>> ELSE Head(ss) \o Flatten(Tail(ss))

\* Lines 84-106: the upload arrives; extension and size are validated and
\* the temporary path is named after the current second
Receive(r, samples) ==
    /\ req[r].pc = "idle"
    /\ \E up \in samples :
          IF ~ExtensionAllowed(up.filename) \/ ~SizeAllowed(up.size)
          THEN Set(r, [req[r] EXCEPT !.pc = "done", !.upload = up,
                                     !.response = [status |-> "400"]])
          ELSE Set(r, [req[r] EXCEPT !.pc = "save", !.upload = up,
                                     !.path = TempFilepath(clock, up.filename),
                                     !.emails_before = {row.email : row \in store},
                                     !.order = Cardinality({q \in Imports :
                                                    req[q].pc # "idle"})])
    /\ UNCHANGED <<sheetVars, store, next_id, clock, uploads_dir, crud, crud_ops>>

\* Lines 110-111: the upload is written to temp_filepath (opened "wb": a file
\* already there is replaced)
SaveUpload(r) ==
    /\ req[r].pc = "save"
    /\ uploads_dir' = (uploads_dir \ FileAt(req[r].path))
          \cup {[path |-> req[r].path, owner |-> r,
                 workbook |-> req[r].upload.workbook]}
    /\ Set(r, [req[r] EXCEPT !.pc = "import"])
    /\ UNCHANGED <<sheetVars, store, next_id, clock, crud, crud_ops>>

\* Lines 114-128: the file now at temp_filepath is read and every sheet
\* processed; the lists of the handler start empty
ImportSheets(r) ==
    /\ req[r].pc = "import"
    /\ LET here    == FileAt(req[r].path)
           results == ImportFromExcelMultipleSheets(
                          here # {},
                          IF here = {} THEN <<>>
                          ELSE (CHOOSE f \in here : TRUE).workbook,
                          req[r].upload.sheet_names)
       IN  Set(r, [req[r] EXCEPT
                 !.pc = "check",
                 !.hojas = [h \in 1..Len(results) |->
                              [nombre |-> results[h].nombre,
                               procesados |-> Len(results[h].registros),
                               errores |-> results[h].errores,
                               creados |-> <<>>, duplicados |-> <<>>,
                               errores_db |-> <<>>]],
                 !.cands = Flatten([h \in 1..Len(results) |->
                              [i \in 1..Len(results[h].registros) |->
                                  [h |-> h, data |-> results[h].registros[i]]]]),
                 !.k = 1])
    /\ UNCHANGED <<sheetVars, store, next_id, clock, uploads_dir, crud, crud_ops>>

\* The rows a query of request r sees: the committed ones and its own
Visible(r) == store \cup req[r].pending

\* Lines 137-144 and 153-154: the duplicate check of the current candidate
CheckDuplicate(r) ==
    LET rq == req[r]
        c  == rq.cands[rq.k]
    IN  /\ rq.pc = "check"
        /\ rq.k <= Len(rq.cands)
        /\ IF rq.tx = "inactive"
           THEN \* the query raises: the session awaits a rollback
                Set(r, [rq EXCEPT !.k = @ + 1,
                           !.hojas[c.h].errores_db = Append(@, c.data.email)])
           ELSE IF ExistsEmail(Visible(r), c.data.email)
           THEN Set(r, [rq EXCEPT !.k = @ + 1,
                           !.hojas[c.h].duplicados = Append(@, c.data.email)])
           ELSE Set(r, [rq EXCEPT !.pc = "insert"])
        /\ UNCHANGED <<sheetVars, store, next_id, clock, uploads_dir, crud, crud_ops>>

\* Another open transaction holds an uncommitted row with this email: the
\* INSERT waits for it to end
Blocked(r, email) ==
    \E q \in Imports \ {r} : \E row \in req[q].pending : row.email = email

\* ... and that transaction waits for this one: the database ends the wait
\* by failing a statement
Deadlocked(r, email) ==
    \E q \in Imports \ {r} :
        /\ \E row \in req[q].pending : row.email = email
        /\ req[q].pc = "insert"
        /\ \E row \in req[r].pending :
              row.email = req[q].cands[req[q].k].data.email

\* Lines 146-154: Registro(**registro_data), db.add, db.flush, from_orm
CreateRegistro(r) ==
    LET rq  == req[r]
        c   == rq.cands[rq.k]
        row == NewRow(next_id, c.data)
    IN  /\ rq.pc = "insert"
        /\ next_id <= MaxId
        /\ ~Blocked(r, c.data.email) \/ Deadlocked(r, c.data.email)
        /\ next_id' = next_id + 1
        /\ IF UniqueViolation(Visible(r), c.data.email) \/ Blocked(r, c.data.email)
           THEN \* flush raises; the session's transaction is rolled back
                Set(r, [rq EXCEPT !.pc = "check", !.k = @ + 1,
                           !.pending = {}, !.tx = "inactive",
                           !.flush_failed = TRUE,
                           !.hojas[c.h].errores_db = Append(@, c.data.email)])
           ELSE IF ResponseValid(row)
           THEN Set(r, [rq EXCEPT !.pc = "check", !.k = @ + 1,
                           !.pending = @ \cup {row},
                           !.hojas[c.h].creados = Append(@, row)])
           ELSE \* from_orm raises after the row was flushed
                Set(r, [rq EXCEPT !.pc = "check", !.k = @ + 1,
                           !.pending = @ \cup {row},
                           !.hojas[c.h].errores_db = Append(@, c.data.email)])
        /\ UNCHANGED <<sheetVars, store, clock, uploads_dir, crud, crud_ops>>

\* As BuildResponse, with a sheet's "errores" counting len(errores) only
BuildResponseWithoutDbErrors(hojas) ==
    LET creados    == Flatten([h \in 1..Len(hojas) |-> hojas[h].creados])
        duplicados == Flatten([h \in 1..Len(hojas) |-> hojas[h].duplicados])
        errores    == Flatten([h \in 1..Len(hojas) |->
                                  hojas[h].errores \o
                                  [i \in 1..Len(hojas[h].errores_db) |->
                                      [tipo |-> "db", hoja |-> hojas[h].nombre,
                                       email |-> hojas[h].errores_db[i]]]])
    IN  [status |-> "200",
         success |-> Len(creados) > 0,
         registros_creados |-> creados,
         total_creados |-> Len(creados),
         total_duplicados |-> Len(duplicados),
         emails_duplicados |-> duplicados,
         errores |-> SubSeq(errores, 1, IF Len(errores) < 10 THEN Len(errores) ELSE 10),
         total_errores |-> Len(errores),
         hojas_procesadas |->
             [h \in 1..Len(hojas) |->
                 [nombre |-> hojas[h].nombre,
                  procesados |-> hojas[h].procesados,
                  creados |-> Len(hojas[h].creados),
                  duplicados |-> Len(hojas[h].duplicados),
                  errores |-> Len(hojas[h].errores)]]]

\* Lines 156-167 and 173-200: the statistics and the response
BuildResponse(hojas) ==
    LET creados    == Flatten([h \in 1..Len(hojas) |-> hojas[h].creados])
        duplicados == Flatten([h \in 1..Len(hojas) |-> hojas[h].duplicados])
        errores    == Flatten([h \in 1..Len(hojas) |->
                                  hojas[h].errores \o
                                  [i \in 1..Len(hojas[h].errores_db) |->
                                      [tipo |-> "db", hoja |-> hojas[h].nombre,
                                       email |-> hojas[h].errores_db[i]]]])
    IN  [status |-> "200",
         success |-> Len(creados) > 0,
         registros_creados |-> creados,
         total_creados |-> Len(creados),
         total_duplicados |-> Len(duplicados),
         emails_duplicados |-> duplicados,
         errores |-> SubSeq(errores, 1, IF Len(errores) < 10 THEN Len(errores) ELSE 10),
         total_errores |-> Len(errores),
         hojas_procesadas |->
             [h \in 1..Len(hojas) |->
                 [nombre |-> hojas[h].nombre,
                  procesados |-> hojas[h].procesados,
                  creados |-> Len(hojas[h].creados),
                  duplicados |-> Len(hojas[h].duplicados),
                  errores |-> Len(hojas[h].errores) + Len(hojas[h].errores_db)]]]

\* As WillCommit, for a handler that never calls db.commit()
NeverCommit(hojas) == FALSE

\* if total_registros_creados: the request will call db.commit()
WillCommit(hojas) == \E h \in 1..Len(hojas) : hojas[h].creados # <<>>

\* Lines 169-204: after the loops, db.commit() when something was created,
\* then the response; an exception (commit on a session that awaits a
\* rollback) is answered by db.rollback() and HTTP 500
CommitAndRespond(r) ==
    LET rq == req[r]
    IN  /\ rq.pc = "check"
        /\ rq.k > Len(rq.cands)
        /\ IF ~WillCommit(rq.hojas)
           THEN /\ Set(r, [rq EXCEPT !.pc = "finally",
                              !.response = BuildResponse(rq.hojas)])
                /\ UNCHANGED store
           ELSE IF rq.tx = "inactive"
           THEN /\ Set(r, [rq EXCEPT !.pc = "finally", !.pending = {},
                              !.tx = "active",
                              !.response = [status |-> "500"]])
                /\ UNCHANGED store
           ELSE /\ store' = store \cup rq.pending
                /\ Set(r, [rq EXCEPT !.pc = "finally", !.pending = {},
                              !.committed = rq.pending,
                              !.response = BuildResponse(rq.hojas)])
        /\ UNCHANGED <<sheetVars, next_id, clock, uploads_dir, crud, crud_ops>>

\* The request's session is closed when the handler is left: what it did not
\* commit is discarded
CloseSession(rq) == [rq EXCEPT !.pending = {}, !.tx = "active"]

\* As Finally, taking the file away only after a normal response
FinallyOnSuccess(r) ==
    /\ req[r].pc = "finally"
    /\ IF FileAt(req[r].path) # {} /\ req[r].response.status = "200"
       THEN Set(r, [req[r] EXCEPT !.pc = "unlink"])
       ELSE Set(r, CloseSession([req[r] EXCEPT !.pc = "done"]))
    /\ UNCHANGED <<sheetVars, store, next_id, clock, uploads_dir, crud, crud_ops>>

\* Lines 206-208: finally, if temp_filepath.exists()
Finally(r) ==
    /\ req[r].pc = "finally"
    /\ IF FileAt(req[r].path) # {}
       THEN Set(r, [req[r] EXCEPT !.pc = "unlink"])
       ELSE Set(r, CloseSession([req[r] EXCEPT !.pc = "done"]))
    /\ UNCHANGED <<sheetVars, store, next_id, clock, uploads_dir, crud, crud_ops>>

\* Line 209: temp_filepath.unlink(); it raises when the file is gone by now,
\* and the request then ends in an unhandled error
Unlink(r) ==
    /\ req[r].pc = "unlink"
    /\ uploads_dir' = uploads_dir \ FileAt(req[r].path)
    /\ IF FileAt(req[r].path) # {}
       THEN Set(r, CloseSession([req[r] EXCEPT !.pc = "done"]))
       ELSE Set(r, CloseSession([req[r] EXCEPT !.pc = "done",
                                    !.response = [status |-> "500"]]))
    /\ UNCHANGED <<sheetVars, store, next_id, clock, crud, crud_ops>>

\* A second passes
Tick ==
    /\ clock < MaxClock
    /\ clock' = clock + 1
    /\ UNCHANGED <<sheetVars, store, next_id, uploads_dir, req, crud, crud_ops>>

(* ------------------------------------------------------------------ *)
(* import_from_excel_multiple_sheets alone                             *)
(* ------------------------------------------------------------------ *)

\* Longest list of requested sheet names
MaxNames == 2

\* The sheets of the files, the names they have and the names a caller asks for
BookSheets ==
    {[headers |-> h, rows |-> rows] :
        h \in {TemplateHeaders, NoEmailHeaders}, rows \in SeqsUpTo(RequestRows, 1)}

BookNames == {"Hoja1", "Hoja2"}
RequestedNames == BookNames \cup {"Cohort2"}

\* Files of one sheet (Hoja1) or two (Hoja1, Hoja2), readable or not, and
\* the sheet_names argument (<<>>: None)
BookInputs ==
    {[readable |-> ok, workbook |-> wb, sheet_names |-> names] :
        ok \in BOOLEAN,
        wb \in {<< [name |-> "Hoja1", sheet |-> a] >> : a \in BookSheets}
               \cup {<< [name |-> "Hoja1", sheet |-> a],
                        [name |-> "Hoja2", sheet |-> b] >> : a, b \in BookSheets},
        names \in SeqsUpTo(RequestedNames, MaxNames)}

BookInit ==
    /\ sheet_in \in BookInputs
    /\ sheet_pc = "call"
    /\ sheet_out = <<>>
    /\ RequestsIdle

\* One call of ExcelHandler.import_from_excel_multiple_sheets
CallImportMultipleSheets ==
    /\ sheet_pc = "call"
    /\ sheet_out' = ImportFromExcelMultipleSheets(sheet_in.readable,
                         sheet_in.workbook, sheet_in.sheet_names)
    /\ sheet_pc' = "returned"
    /\ UNCHANGED <<sheet_in, reqVars>>

BookNext == CallImportMultipleSheets

SpecBook == BookInit /\ [][BookNext]_vars

(* ------------------------------------------------------------------ *)
(* Import requests one after the other, and no other writer            *)
(* ------------------------------------------------------------------ *)

\* A table that already holds a record for EmailA, or nothing
InitialStores ==
    { {}, {[id |-> 1, nombres |-> Ana, apellidos |-> Paz, email |-> EmailA,
            estudio |-> Sistemas]} }

SeqInit ==
    /\ sheet_in = [headers |-> TemplateHeaders, rows |-> <<>>]
    /\ sheet_pc = "call"
    /\ sheet_out = NoOutcome
    /\ store \in InitialStores
    /\ next_id = Cardinality(store) + 1
    /\ clock = 0
    /\ uploads_dir = {}
    /\ req = [r \in Imports |-> IdleRequest]
    /\ crud = NoCrud
    /\ crud_ops = 0

\* No other request is between its arrival and its end
Alone(r) == \A q \in Imports \ {r} : req[q].pc \in {"idle", "done"}

SeqNext ==
    \/ \E r \in Imports : Alone(r) /\ Receive(r, UploadSamples)
    \/ \E r \in Imports : Alone(r) /\ SaveUpload(r)
    \/ \E r \in Imports : Alone(r) /\ ImportSheets(r)
    \/ \E r \in Imports : Alone(r) /\ CheckDuplicate(r)
    \/ \E r \in Imports : Alone(r) /\ CreateRegistro(r)
    \/ \E r \in Imports : Alone(r) /\ CommitAndRespond(r)
    \/ \E r \in Imports : Alone(r) /\ Finally(r)
    \/ \E r \in Imports : Alone(r) /\ Unlink(r)

SpecSeq == SeqInit /\ [][SeqNext]_vars


(* ------------------------------------------------------------------ *)
(* crear_registro, actualizar_registro, eliminar_registro              *)
(* ------------------------------------------------------------------ *)

\* The bodies the CRUD client sends (RegistroCreate, RegistroUpdate: already
\* validated by the schema)
CrudInputs ==
    {[nombres |-> Ana, apellidos |-> Paz, email |-> e, estudio |-> s] :
        e \in {EmailA, EmailL}, s \in {Sistemas, <<"F","o","o">>}}

\* The ids a client may name: those given out so far, and one never given
RequestIds == 0..(next_id - 1)

\* An import's open transaction holds an uncommitted row with this email
HeldByImport(email) ==
    \E q \in Imports : \E row \in req[q].pending : row.email = email

\* crear_registro, lines 30-43: estudio and the duplicate check
CrearCheck ==
    /\ crud.pc = "idle"
    /\ crud_ops < MaxCrudOps
    /\ crud_ops' = crud_ops + 1
    /\ \E data \in CrudInputs :
          IF ~EstudioValido(data.estudio) \/ ExistsEmail(store, data.email)
          THEN UNCHANGED crud      \* HTTP 400
          ELSE crud' = [pc |-> "crear", id |-> 0, data |-> data]
    /\ UNCHANGED <<sheetVars, store, next_id, clock, uploads_dir, req>>

\* crear_registro, lines 45-50: db.add and db.commit; the INSERT waits for an
\* open transaction that holds the same email, and fails on the constraint
CrearCommit ==
    /\ crud.pc = "crear"
    /\ next_id <= MaxId
    /\ ~HeldByImport(crud.data.email)
    /\ next_id' = next_id + 1
    /\ IF UniqueViolation(store, crud.data.email)
       THEN UNCHANGED store        \* IntegrityError: HTTP 500
       ELSE store' = store \cup {NewRow(next_id, crud.data)}
    /\ crud' = NoCrud
    /\ UNCHANGED <<sheetVars, clock, uploads_dir, req, crud_ops>>

\* actualizar_registro, lines 105-124
ActualizarCheck ==
    /\ crud.pc = "idle"
    /\ crud_ops < MaxCrudOps
    /\ crud_ops' = crud_ops + 1
    /\ \E id \in RequestIds, data \in CrudInputs :
          LET found == {row \in store : row.id = id}
          IN  IF ~EstudioValido(data.estudio)
              THEN UNCHANGED crud                               \* HTTP 400
              ELSE IF found = {}
              THEN UNCHANGED crud                               \* HTTP 404
              ELSE IF /\ data.email # (CHOOSE row \in found : TRUE).email
                      /\ ExistsEmail({row \in store : row.id # id}, data.email)
              THEN UNCHANGED crud                               \* HTTP 400
              ELSE crud' = [pc |-> "actualizar", id |-> id, data |-> data]
    /\ UNCHANGED <<sheetVars, store, next_id, clock, uploads_dir, req>>

\* actualizar_registro, lines 126-131: setattr and db.commit
ActualizarCommit ==
    /\ crud.pc = "actualizar"
    /\ LET found  == {row \in store : row.id = crud.id}
           others == store \ found
       IN  /\ \A row \in found :
                 row.email # crud.data.email => ~HeldByImport(crud.data.email)
           /\ IF found = {} \/ (\E row \in found :
                                  /\ row.email # crud.data.email
                                  /\ UniqueViolation(others, crud.data.email))
              THEN UNCHANGED store                              \* HTTP 500
              ELSE store' = others \cup {NewRow(crud.id, crud.data)}
    /\ crud' = NoCrud
    /\ UNCHANGED <<sheetVars, next_id, clock, uploads_dir, req, crud_ops>>

\* eliminar_registro, lines 142-148
EliminarRegistro ==
    /\ crud.pc = "idle"
    /\ crud_ops < MaxCrudOps
    /\ crud_ops' = crud_ops + 1
    /\ \E id \in RequestIds :
          store' = {row \in store : row.id # id}     \* HTTP 404 when none
    /\ UNCHANGED <<sheetVars, next_id, clock, uploads_dir, req, crud>>

(* ------------------------------------------------------------------ *)
(* An import request and CRUD requests together                        *)
(* ------------------------------------------------------------------ *)

\* The import request that races with the CRUD client
Racing == {"r1"}

Init == SeqInit

Next ==
    \/ \E r \in Racing : Receive(r, UploadSamples)
    \/ \E r \in Racing : SaveUpload(r)
    \/ \E r \in Racing : ImportSheets(r)
    \/ \E r \in Racing : CheckDuplicate(r)
    \/ \E r \in Racing : CreateRegistro(r)
    \/ \E r \in Racing : CommitAndRespond(r)
    \/ \E r \in Racing : Finally(r)
    \/ \E r \in Racing : Unlink(r)
    \/ CrearCheck
    \/ CrearCommit
    \/ ActualizarCheck
    \/ ActualizarCommit
    \/ EliminarRegistro

Spec == Init /\ [][Next]_vars


(* ------------------------------------------------------------------ *)
(* Two import requests in flight together                              *)
(* ------------------------------------------------------------------ *)

RowA == << Text(Ana), Text(Paz), Text(EmailA), Text(Sistemas) >>
RowL == << Text(Ana), Text(Paz), Text(EmailL), Text(Sistemas) >>

\* The uploads of the concurrent requests: the same two rows in either order
\* under one file name, and a file the extension check refuses
PairUploads ==
    {[filename |-> XlsxName, size |-> 1024,
      workbook |-> << [name |-> SheetName,
                       sheet |-> [headers |-> TemplateHeaders, rows |-> rows]] >>,
      sheet_names |-> <<>>] : rows \in { <<RowA, RowL>>, <<RowL, RowA>> }}
    \cup
    {[filename |-> CsvName, size |-> 1024, workbook |-> <<>>, sheet_names |-> <<>>]}

PairNext ==
    \/ \E r \in Imports : Receive(r, PairUploads)
    \/ \E r \in Imports : SaveUpload(r)
    \/ \E r \in Imports : ImportSheets(r)
    \/ \E r \in Imports : CheckDuplicate(r)
    \/ \E r \in Imports : CreateRegistro(r)
    \/ \E r \in Imports : CommitAndRespond(r)
    \/ \E r \in Imports : Finally(r)
    \/ \E r \in Imports : Unlink(r)
    \/ Tick

SpecPair == Init /\ [][PairNext]_vars


(* ================================================================== *)
(* Properties of the sheet importer (checked under SpecSheet)          *)
(* ================================================================== *)

\* The header row of the sheet supplies all four canonical fields
Resolves(sheet) ==
    MissingFields(MappedColumns(NormalizeColumns(sheet.headers))) = <<>>

\* The cell of data row i under the column that supplies field, as read
CellOf(sheet, i, field) ==
    ReadCell(sheet.rows[i][MappedColumns(NormalizeColumns(sheet.headers))[field]])

\* The fields the header row supplies
SuppliedFields(sheet) ==
    {field \in DOMAIN column_mapping :
        MappedColumns(NormalizeColumns(sheet.headers))[field] # 0}

\* The data rows with an empty cell under a required column
BlankRows(sheet) ==
    {i \in 1..Len(sheet.rows) :
        \E field \in SuppliedFields(sheet) : CellOf(sheet, i, field).kind = "null"}

\* The error strings about data row i (row i is reported as "Fila i + 1")
ErrorsOfRow(out, i) ==
    SelectSeq(out.errores,
              LAMBDA e : e.tipo \in {"estudio", "email"} /\ e.fila = i + 1)

\* Data row i has an estudio, and it is not one of ESTUDIOS_DISPONIBLES
OffendingEstudio(sheet, i) ==
    /\ "estudio" \in SuppliedFields(sheet)
    /\ CellOf(sheet, i, "estudio").kind # "null"
    /\ Strip(CellOf(sheet, i, "estudio").v) \notin ESTUDIOS_DISPONIBLES

\* Data row i has an email that, trimmed and lower-cased, lacks '@' or '.'
BadEmail(sheet, i) ==
    /\ "email" \in SuppliedFields(sheet)
    /\ CellOf(sheet, i, "email").kind # "null"
    /\ LET email == Lower(Strip(CellOf(sheet, i, "email").v))
       IN  ~Contains(email, "@") \/ ~Contains(email, ".")

RowCountBalance ==
    Len(sheet_out.registros) + Len(sheet_out.errores)
        + Cardinality(BlankRows(sheet_in)) = Len(sheet_in.rows)

NoOffendingEstudioValid(rows) ==
    /\ \A k \in 1..Len(sheet_out.registros) :
          sheet_out.registros[k].estudio \in ESTUDIOS_DISPONIBLES
    /\ Len(sheet_out.registros) <= Len(sheet_in.rows) - Cardinality(rows)

C9_NamesNotEmpty ==
    sheet_pc = "returned" =>
        \A k \in 1..Len(sheet_out.registros) :
            /\ sheet_out.registros[k].nombres # <<>>
            /\ sheet_out.registros[k].apellidos # <<>>

\* C10: a data row whose email, trimmed and lower-cased, lacks '@' or '.' is
\* never among the valid records (it is reported by one error string), and
\* every valid record's email is trimmed, lower-cased and contains both.
C10_EmailShape ==
    sheet_pc = "returned" =>
        LET bad == {i \in 1..Len(sheet_in.rows) :
                       BadEmail(sheet_in, i) /\ i \notin BlankRows(sheet_in)}
        IN  /\ \A k \in 1..Len(sheet_out.registros) :
                  LET email == sheet_out.registros[k].email
                  IN  /\ Lower(email) = email /\ Strip(email) = email
                      /\ Contains(email, "@") /\ Contains(email, ".")
            /\ Len(sheet_out.registros) <= Len(sheet_in.rows) - Cardinality(bad)
            /\ Resolves(sheet_in) =>
                  \A i \in bad : Len(ErrorsOfRow(sheet_out, i)) = 1

C10_Witness ==
    /\ sheet_pc = "returned" /\ Resolves(sheet_in)
    /\ \E i \in 1..Len(sheet_in.rows) :
          /\ BadEmail(sheet_in, i) /\ ~OffendingEstudio(sheet_in, i)
          /\ i \notin BlankRows(sheet_in)
          /\ ErrorsOfRow(sheet_out, i) # <<>>
    /\ \E k \in 1..Len(sheet_out.registros) :
          sheet_out.registros[k].email = <<"a","@","b",".","c","o">>

\* Some header of the sheet, trimmed and lower-cased, is a synonym of field
HeaderMatches(sheet, field) ==
    \E j \in 1..Len(sheet.headers) :
        /\ sheet.headers[j].kind = "text"
        /\ Lower(Strip(sheet.headers[j].v)) \in column_mapping[field]

\* The canonical fields no header matches, in canonical order
Unmatched(sheet) ==
    SelectSeq(required_fields, LAMBDA field : ~HeaderMatches(sheet, field))

\* Resolution succeeded: each field is mapped to a column whose header matches
\* it and the sheet got no sheet-level error
ResolvedAll ==
    /\ \A field \in DOMAIN column_mapping :
          LET j == MappedColumns(NormalizeColumns(sheet_in.headers))[field]
          IN  /\ j \in 1..Len(sheet_in.headers)
              /\ sheet_in.headers[j].kind = "text"
              /\ Lower(Strip(sheet_in.headers[j].v)) \in column_mapping[field]
    /\ \A k \in 1..Len(sheet_out.errores) :
          sheet_out.errores[k].tipo \notin {"columnas", "hoja"}

\* The outcome is no valid record and the one error string that lists
\* exactly the fields without a matching header
MissingColumnsOutcome ==
    /\ sheet_out.registros = <<>>
    /\ sheet_out.errores =
          << [tipo |-> "columnas", hoja |-> SheetName,
              faltan |-> Unmatched(sheet_in)] >>

\* C12 as stated: when every canonical field has a header whose trimmed,
\* lower-cased form is one of its synonyms, resolution succeeds with a
\* mapping for all four fields; otherwise the outcome is no valid records
\* and the single error string that lists exactly the fields without a
\* matching header, with no row processed.
C12_AnyHeaderRow ==
    sheet_pc = "returned" =>
        IF Unmatched(sheet_in) = <<>> THEN ResolvedAll ELSE MissingColumnsOutcome

\* C12 as amended: the same, for a header row with at least one text header;
\* a header row of non-text cells only gives no valid records and a single
\* sheet-processing error string that lists no field.
C12_ColumnResolution ==
    sheet_pc = "returned" =>
        IF \E j \in 1..Len(sheet_in.headers) : sheet_in.headers[j].kind = "text"
        THEN IF Unmatched(sheet_in) = <<>> THEN ResolvedAll
             ELSE MissingColumnsOutcome
        ELSE /\ sheet_out.registros = <<>>
             /\ sheet_out.errores = << [tipo |-> "hoja", hoja |-> SheetName] >>

\* A sheet with rows and two fields without a header got the one error
C12_Witness ==
    /\ sheet_pc = "returned"
    /\ Unmatched(sheet_in) = <<"apellidos", "estudio">>
    /\ Len(sheet_in.rows) = 2
    /\ Len(sheet_out.errores) = 1 /\ sheet_out.registros = <<>>

(* ================================================================== *)
(* Properties of import_from_excel_multiple_sheets (SpecBook)          *)
(* ================================================================== *)

\* The file has a sheet of that name
Present(book, name) ==
    \E j \in 1..Len(book.workbook) : book.workbook[j].name = name

\* The entries of the results under that key
EntriesOf(results, name) == SelectSeq(results, LAMBDA e : e.nombre = name)

\* C11: for a readable file, every requested sheet name absent from the file
\* gets the outcome (no valid records, one error string naming it), every
\* requested sheet that is present gets the outcome of _process_sheet on it,
\* and the outcomes of the present sheets are those of the call that asks
\* for the present sheets only.
C11_AbsentSheetIsolated ==
    sheet_pc = "returned" /\ sheet_in.readable =>
        LET names == sheet_in.sheet_names
            kept  == SelectSeq(names, LAMBDA n : Present(sheet_in, n))
        IN  /\ \A i \in 1..Len(names) :
                  /\ Len(EntriesOf(sheet_out, names[i])) = 1
                  /\ LET entry == EntriesOf(sheet_out, names[i])[1]
                     IN  IF Present(sheet_in, names[i])
                         THEN LET out == ProcessSheet(
                                      SheetNamed(sheet_in.workbook, names[i]),
                                      names[i])
                              IN  /\ entry.registros = out.registros
                                  /\ entry.errores = out.errores
                         ELSE /\ entry.registros = <<>>
                              /\ entry.errores =
                                    << [tipo |-> "no_existe", hoja |-> names[i]] >>
            /\ kept # <<>> =>
                  SelectSeq(sheet_out, LAMBDA e : Present(sheet_in, e.nombre))
                      = ImportFromExcelMultipleSheets(TRUE, sheet_in.workbook, kept)

\* An absent sheet was requested before a present one that yields a record
C11_Witness ==
    /\ sheet_pc = "returned" /\ sheet_in.readable
    /\ sheet_in.sheet_names = <<"Cohort2", "Hoja2">>
    /\ Len(sheet_out) = 2
    /\ sheet_out[1].errores = << [tipo |-> "no_existe", hoja |-> "Cohort2"] >>
    /\ sheet_out[2].registros # <<>>

(* ================================================================== *)
(* Properties of import requests run one after the other (SpecSeq)     *)
(* ================================================================== *)

\* The request has its response
Responded(r) == req[r].pc \in {"finally", "unlink", "done"}

\* How many elements of seq satisfy Test
Count(seq, Test(_)) == Cardinality({i \in 1..Len(seq) : Test(seq[i])})

\* The candidates with email e, the records created for e and the
\* duplicates reported for e in request r
CandidatesWith(r, e) == Count(req[r].cands, LAMBDA c : c.data.email = e)
CreatedWith(r, e) ==
    Count(Flatten([h \in 1..Len(req[r].hojas) |-> req[r].hojas[h].creados]),
          LAMBDA row : row.email = e)
DuplicatesWith(r, e) ==
    Count(Flatten([h \in 1..Len(req[r].hojas) |-> req[r].hojas[h].duplicados]),
          LAMBDA email : email = e)

\* C1 as stated: when two Candidate Records of one import request carry the
\* same email and the table held no record with it beforehand, the request
\* ends with exactly one of them created and exactly one reported as
\* duplicate.
C1_FirstCreatedSecondDuplicate ==
    \A r \in Imports : \A e \in {EmailA, EmailL} :
        /\ Responded(r)
        /\ CandidatesWith(r, e) = 2
        /\ e \notin req[r].emails_before
        => CreatedWith(r, e) = 1 /\ DuplicatesWith(r, e) = 1

\* The requests that arrived first and second
First(r) == req[r].pc # "idle" /\ req[r].order = 0
Second(r) == req[r].pc # "idle" /\ req[r].order = 1

\* C2: when an import has created a record for each of the N candidates of
\* its file and the same file is imported again, with no other writer in
\* between, the second import creates nothing and reports all N candidates
\* as duplicates.
C2_ReimportAllDuplicates ==
    \A p, q \in Imports :
        /\ First(p) /\ Second(q)
        /\ req[q].upload = req[p].upload
        /\ Responded(p) /\ req[p].response.status = "200"
        /\ req[p].response.total_creados = Len(req[p].cands)
        /\ Responded(q)
        => /\ req[q].response.status = "200"
           /\ req[q].response.total_creados = 0
           /\ req[q].response.total_duplicados = Len(req[p].cands)
           /\ req[q].response.emails_duplicados =
                 [i \in 1..Len(req[q].cands) |-> req[q].cands[i].data.email]
           /\ req[q].committed = {}

C2_Witness ==
    \E p, q \in Imports :
        /\ First(p) /\ Second(q)
        /\ req[q].upload = req[p].upload
        /\ req[p].pc = "done" /\ req[p].response.status = "200"
        /\ req[p].response.total_creados = 2
        /\ req[q].pc = "done"
        /\ req[q].response.total_duplicados = 2

(* ================================================================== *)
(* Properties of an import request racing with CRUD requests (Spec)    *)
(* ================================================================== *)

RECURSIVE SumSeq(_)
SumSeq(ns) == IF ns = <<>> THEN 0 ELSE Head(ns) + SumSeq(Tail(ns))

\* The sheet statistics of the response of request r
Stats(r) == req[r].response.hojas_procesadas

\* The importer's outcome for the h-th sheet of request r, computed from the
\* upload itself
ImporterOutcome(r, h) ==
    ImportFromExcelMultipleSheets(TRUE, req[r].upload.workbook,
                                  req[r].upload.sheet_names)[h]

\* C13: in every import response (checked when the handler has just built
\* it, before the finally block), per sheet, procesados is the number of the
\* importer's Candidate Records and equals creados + duplicados + (errores
\* minus the importer's error strings of the sheet), and the grand totals
\* are the sums of the per-sheet counts and the lengths of the lists sent.
C13_CountsAddUp ==
    \A r \in Imports :
        req[r].pc = "finally" /\ req[r].response.status = "200" =>
            LET resp == req[r].response
            IN  /\ \A h \in 1..Len(Stats(r)) :
                      /\ Stats(r)[h].procesados = Len(ImporterOutcome(r, h).registros)
                      /\ Stats(r)[h].procesados =
                            Stats(r)[h].creados + Stats(r)[h].duplicados
                            + (Stats(r)[h].errores - Len(ImporterOutcome(r, h).errores))
                /\ resp.total_creados =
                      SumSeq([h \in 1..Len(Stats(r)) |-> Stats(r)[h].creados])
                /\ resp.total_duplicados =
                      SumSeq([h \in 1..Len(Stats(r)) |-> Stats(r)[h].duplicados])
                /\ resp.total_errores =
                      SumSeq([h \in 1..Len(Stats(r)) |-> Stats(r)[h].errores])
                /\ resp.total_creados = Len(resp.registros_creados)
                /\ resp.total_duplicados = Len(resp.emails_duplicados)

\* A response over three requested sheets with a created record, an
\* importer error and a sheet that was absent
C13_Witness ==
    \E r \in Imports :
        /\ req[r].pc = "finally" /\ req[r].response.status = "200"
        /\ Len(Stats(r)) = 3
        /\ req[r].response.total_creados = 1
        /\ req[r].response.total_errores = 2

\* C3: no two rows of the table have the same email, whatever import and
\* CRUD requests have run and however they interleaved.
C3_EmailUnique ==
    \A x, y \in store : x.email = y.email => x = y

\* The constraint has refused an insert and the table holds several rows
C3_Witness ==
    /\ Cardinality(store) >= 2
    /\ \E r \in Imports : req[r].flush_failed

\* The records request r has appended to registros_creados_hoja
Created(r) ==
    UNION {{req[r].hojas[h].creados[i] : i \in 1..Len(req[r].hojas[h].creados)} :
              h \in 1..Len(req[r].hojas)}

\* C4 as stated: when the store rejects an insert of an import batch at
\* flush, the record is counted as an error, the batch goes on to a normal
\* response, and every record created earlier in the batch is persisted
\* once the request has finished.
C4_EarlierCreatedPreserved ==
    \A r \in Imports :
        req[r].pc = "done" /\ req[r].flush_failed =>
            /\ req[r].response.status = "200"
            /\ req[r].response.total_errores >= 1
            /\ Created(r) \subseteq req[r].committed

\* C5 as stated: an import request whose insert was rejected because a
\* concurrent writer took the email after the duplicate check still ends
\* with a normal response, never with HTTP 500.
C5_RejectionNeverFatal ==
    \A r \in Imports :
        Responded(r) /\ req[r].flush_failed => req[r].response.status # "500"

\* C6: once an import request that wrote its temporary file has finished,
\* on whatever path, the file it wrote is gone: the uploads directory holds
\* no file written by it, and nothing at all at its temp_filepath unless
\* another request was given the same path.
C6_TempFileReleased ==
    \A r \in Imports :
        req[r].pc = "done" /\ req[r].response.status # "400" =>
            /\ \A f \in uploads_dir : f.owner # r
            /\ (\A q \in Imports \ {r} : req[q].path # req[r].path)
                  => FileAt(req[r].path) = {}

\* A request that ended in HTTP 500 after writing its file, the file gone
C6_Witness ==
    \E r \in Imports :
        /\ req[r].pc = "done" /\ req[r].response.status = "500"
        /\ req[r].cands # <<>>
        /\ FileAt(req[r].path) = {}


\* C14 as stated: an import request that answers normally has every record of
\* registros_creados committed, and one that ends in a request-level failure
\* has committed none of the records it added.
C14_AtomicImport ==
    \A r \in Imports :
        req[r].pc = "done" =>
            /\ req[r].response.status = "200" => Created(r) \subseteq req[r].committed
            /\ req[r].response.status = "500" => req[r].committed = {}

(* ================================================================== *)
(* Properties of two import requests in flight together (SpecPair)     *)
(* ================================================================== *)

\* C15 as stated: when an import request is about to read its temporary
\* file, the file at its temp_filepath is the one it wrote, with the content
\* it uploaded: no other request has overwritten or deleted it.
C15_ReadsOwnFile ==
    \A r \in Imports :
        req[r].pc = "import" =>
            FileAt(req[r].path) =
                {[path |-> req[r].path, owner |-> r,
                  workbook |-> req[r].upload.workbook]}

====
